---- MODULE Spec2Model ----
(***************************************************************************)
(* Model of function_app.py: the getMDVMData entry point, the token cache  *)
(* (_get_cached_token / _fetch_aad_token), the shared HTTP transport with  *)
(* its urllib3 Retry policy, the paginated fetch loop                      *)
(* (_fetch_mdvm_vulnerabilities) and the reorganizer                       *)
(* (_reorganize_vulnerabilities_by_hierarchy).  Every host thread runs     *)
(* getMDVMData; the handler is split into steps at the points where it     *)
(* blocks: acquiring _token_lock and each HTTP attempt on the wire.  The   *)
(* validation of the query parameters and the reorganizer, which read no   *)
(* shared state, are also exercised on their own.                          *)
(***************************************************************************)
EXTENDS Integers, Sequences, FiniteSets, TLC

(* ------------------------------ bounds -------------------------------- *)
\* requests each host thread handles when threads run concurrently
MaxCalls == 2
\* requests the single caller makes when requests come one after another
MaxSeqCalls == 3
\* pages a paginated source can have
MaxSrcPages == 3
\* records the list handed to the reorganizer can have
MaxRecords == 3
\* the largest hard cap on the page count a deployment is configured with
MaxCap == 2

\* host threads running the entry point concurrently
Threads == {"w1", "w2"}
NoThread == "none"
\* the caller of the sequential specification
SeqThread == "w1"
\* the instants the clock visits: issuance at 0 makes 3300 the first instant
\* at which the entry is no longer served (3600 = 3300 + 300)
Instants == {0, 3000, 3300}

(* ------------------------- program constants -------------------------- *)
DEFAULT_PAGE_SIZE == 10
DEFAULT_MAX_PAGES == 5
MAX_PAGE_SIZE == 200000
MAX_PAGES_LIMIT == 0
\* Retry(total=3)
RetryTotal == 3
StatusForcelist == {429, 500, 502, 503, 504}
\* urllib3's Retry.RETRY_AFTER_STATUS_CODES
RetryAfterStatusCodes == {413, 429, 503}
\* the 5 minute buffer of the cache check
BufferSeconds == 300
\* the assumed token lifetime
TokenLifetime == 3600
\* headers.get('Retry-After', '60')
DefaultRetryAfter == 60

(* ----------------------------- the state ------------------------------ *)
VARIABLES
  now,          \* time.time()
  token_cache,  \* _token_cache: cache key -> entry, NoEntry when the key is absent
  token_lock,   \* _token_lock: the thread holding it, or NoThread
  issued,       \* tokens the identity provider has issued so far
  pc,           \* where each thread is in getMDVMData
  calls,        \* requests each thread has started
  tk,           \* per thread: locals of _get_cached_token / _fetch_aad_token
  tr,           \* per thread: the transport's state for the request in flight
  ft,           \* per thread: locals of _fetch_mdvm_vulnerabilities
  resp,         \* per thread: the HttpResponse of the request, once there is one
  prev,         \* cache key -> outcome of the latest completed _get_cached_token call
  last_write,   \* cache key -> token of the latest write-update under the lock
  written_for,  \* cache key -> credentials of the call that made that write
  req_params,   \* the query parameters and the hard cap of a validation on its own
  validated,    \* what lines 228-239 make of req_params
  vulnerabilities,  \* the list a call of the reorganizer on its own is given
  reorganized   \* what that call returned

\* the state of the functions exercised on their own
fn_vars == <<req_params, validated, vulnerabilities, reorganized>>

vars == <<now, token_cache, token_lock, issued, pc, calls, tk, tr, ft, resp,
          prev, last_write, written_for, req_params, validated, vulnerabilities,
          reorganized>>

(* ------------------------- requests and environment ------------------- *)
\* os.environ as a request can find it; "" is a missing (or empty) variable
Env(tenant_id, client_id, client_secret, resource) ==
  [AAD_TENANT_ID |-> tenant_id, AAD_CLIENT_ID |-> client_id,
   AAD_CLIENT_SECRET |-> client_secret, AAD_RESOURCE_APP_ID_URI |-> resource]
\* the default of AAD_RESOURCE_APP_ID_URI (line 256)
ResourceUri == "https://api.securitycenter.microsoft.com"
\* one tenant's credentials with the right and with another secret, another
\* tenant's, the secret missing, and a client id and resource URI that share
\* the ":" of the cache key with the first environment's
Environments ==
  { Env("tenantA", "app", "s1", ""), Env("tenantA", "app", "s2", ""),
    Env("tenantB", "app", "s1", ""), Env("tenantA", "app", "", ""),
    Env("tenantA", "app:https", "s1", "//api.securitycenter.microsoft.com") }
\* the environments of the requests of the one caller with every parameter
SeqEnvironments ==
  { Env("tenantA", "app", "s1", ""), Env("tenantA", "app", "", "") }
\* the environments of the requests that run concurrently
ConcEnvironments == {Env("tenantA", "app", "s1", ""), Env("tenantA", "app", "", "")}

\* os.environ.get("AAD_RESOURCE_APP_ID_URI", "https://api.securitycenter...")
ResourceOf(env) ==
  IF env.AAD_RESOURCE_APP_ID_URI = "" THEN ResourceUri
  ELSE env.AAD_RESOURCE_APP_ID_URI

\* cache_key = f"{tenant_id}:{client_id}:{resource_app_id_uri}"
CacheKey(tenant_id, client_id, client_secret, resource_app_id_uri) ==
  tenant_id \o ":" \o client_id \o ":" \o resource_app_id_uri

CacheKeys ==
  {CacheKey(e.AAD_TENANT_ID, e.AAD_CLIENT_ID, e.AAD_CLIENT_SECRET, ResourceOf(e)) :
     e \in Environments}

NoEntry == [token |-> 0, expires_at |-> 0, present |-> FALSE]
NoCreds == [tenant_id |-> "", client_id |-> "", client_secret |-> "",
            resource |-> ""]

\* what a request found: integer parameters, the required variables set
ValidReq == [int_params |-> TRUE, env_set |-> TRUE]

\* a query parameter: absent, an integer string, or a string int() rejects
ParamAbsent == [given |-> FALSE, int |-> FALSE, val |-> 0]
ParamInt(n) == [given |-> TRUE, int |-> TRUE, val |-> n]
ParamBad == [given |-> TRUE, int |-> FALSE, val |-> 0]
PageSizeInputs == {ParamAbsent, ParamInt(-5), ParamInt(999999999), ParamBad}
MaxPagesInputs ==
  {ParamAbsent, ParamInt(-1), ParamInt(0), ParamInt(1), ParamInt(2), ParamBad}
\* the paginated sources: how many pages each has
Sources == 1..MaxSrcPages
ConcSources == {1}
\* the parameters of the requests that run concurrently
ConcPageSizeInputs == {ParamAbsent}
ConcMaxPagesInputs == {ParamInt(1), ParamBad}

\* int(req.params.get(name, str(default))): the value, when int() accepts it
IntOf(p, default) == IF p.given THEN p.val ELSE default
Max(a, b) == IF a >= b THEN a ELSE b
Min(a, b) == IF a <= b THEN a ELSE b

\* variant: no floor
ClampPageSizeNoFloor(p) == Min(IntOf(p, DEFAULT_PAGE_SIZE), MAX_PAGE_SIZE)

\* line 229
ClampPageSize(p) == Min(Max(IntOf(p, DEFAULT_PAGE_SIZE), 1), MAX_PAGE_SIZE)

\* lines 230-231, for a module whose MAX_PAGES_LIMIT is limit
EffectiveMaxPages(p, limit) ==
  LET max_pages_input == Max(IntOf(p, DEFAULT_MAX_PAGES), 0)
  IN  IF limit > 0 THEN Min(max_pages_input, limit)
      ELSE max_pages_input

\* lines 230-231 of the module as it is
ClampMaxPages(p) == EffectiveMaxPages(p, MAX_PAGES_LIMIT)

(* ---------------------------- the transport --------------------------- *)
\* what one attempt on the wire can meet: a connection-level failure
\* (err /= "none") or a response with a status, an optional Retry-After
\* header (0: absent), a body that parses or not, and a continuation link
Answer(err, status, retry_after, body_ok, next) ==
  [err |-> err, status |-> status, retry_after |-> retry_after,
   body_ok |-> body_ok, next |-> next]
NoAnswer == Answer("none", 0, 0, FALSE, FALSE)

TokenAnswers ==
  { Answer("none", 200, 0, TRUE, FALSE), Answer("none", 200, 0, FALSE, FALSE),
    Answer("none", 401, 0, FALSE, FALSE), Answer("none", 500, 0, FALSE, FALSE),
    Answer("connect", 0, 0, FALSE, FALSE) }

PageAnswers ==
  { Answer("none", 200, 0, TRUE, TRUE), Answer("none", 200, 0, TRUE, FALSE),
    Answer("none", 401, 0, FALSE, FALSE), Answer("none", 403, 0, FALSE, FALSE),
    Answer("none", 404, 0, FALSE, FALSE), Answer("none", 429, 0, FALSE, FALSE),
    Answer("none", 429, 45, FALSE, FALSE), Answer("none", 500, 0, FALSE, FALSE),
    Answer("none", 501, 0, FALSE, FALSE), Answer("read", 0, 0, FALSE, FALSE),
    Answer("none", 200, 0, FALSE, FALSE) }

\* the answers met by the requests that run concurrently
ConcTokenAnswers ==
  { Answer("none", 200, 0, TRUE, FALSE), Answer("none", 500, 0, FALSE, FALSE) }
ConcPageAnswers ==
  { Answer("none", 200, 0, TRUE, FALSE), Answer("none", 401, 0, FALSE, FALSE),
    Answer("none", 429, 0, FALSE, FALSE) }

\* variant: only GET is retried
AllowedMethodsGetOnly == {"GET"}

\* allowed_methods of the Retry strategy
AllowedMethods == {"GET", "POST"}

\* Retry.is_retry(method, status, has_retry_after), and the retry of a failed
\* connection (always) or of a failed read (when the method is allowed)
IsRetry(method, ans) ==
  IF ans.err = "connect" THEN TRUE
  ELSE IF ans.err = "read" THEN method \in AllowedMethods
  ELSE /\ method \in AllowedMethods
       /\ \/ ans.status \in StatusForcelist
          \/ ans.retry_after > 0 /\ ans.status \in RetryAfterStatusCodes

\* what the session call does with the answer to one attempt, retries_left
\* being what is left of Retry.total: send again, raise (RetryError and
\* ConnectionError are both RequestException), or hand the response back
TransportStep(method, ans, retries_left) ==
  IF IsRetry(method, ans)
  THEN IF retries_left > 0 THEN "retry"
       ELSE IF ans.err = "none" THEN "RetryError" ELSE "ConnectionError"
  ELSE IF ans.err = "none" THEN "response" ELSE "ConnectionError"

\* response.raise_for_status()
RaisesForStatus(status) == status >= 400 /\ status < 600

(* ------------------------- per-thread locals -------------------------- *)
NoUrl == [kind |-> "none", pageSize |-> 0]
BaseUrl(page_size) == [kind |-> "base", pageSize |-> page_size]
NextLink == [kind |-> "next", pageSize |-> 0]
\* "if current_url": None and "" are both falsy
Truthy(url) == url.kind /= "none"

\* kind: how the cache check went ("hit", "absent", "expired"); token: what
\* _fetch_aad_token returned, issued_at: when the identity provider answered
\* with it; access_token: what _get_cached_token returned
TkInit == [creds |-> NoCreds, kind |-> "none", token |-> 0, issued_at |-> 0,
           access_token |-> 0, issuer_calls |-> 0]
\* page_size is read once, for the first URL (line 150); gets counts the
\* session.get calls; src_pages is the number of pages of the paginated
\* source the request reads
FtInit == [page_size |-> 0, max_pages |-> 0, current_url |-> NoUrl,
           pages_fetched |-> 0, gets |-> 0, src_pages |-> 0]
\* retries_left: what is left of Retry.total; sent: attempts put on the wire
\* for the session call in flight
TrInit == [retries_left |-> 0, sent |-> 0]
TrStart == [retries_left |-> RetryTotal, sent |-> 0]
\* the response (timestamp: its body has a "timestamp"), and what it came
\* of. upstream, sent: the last answer of the failed session call and the
\* attempts it took; of: the max_pages a successful fetch ran with, the pages
\* of the source it read and the session.get calls it made (for a failed
\* fetch: the session.get calls it made); req: what the request found
NoFetch == [max_pages |-> 0, src_pages |-> 0, gets |-> 0]
NoResp == [status_code |-> 0, error |-> "none", retry_after |-> 0,
           timestamp |-> FALSE, pages_fetched |-> 0, has_more_data |-> FALSE,
           upstream |-> NoAnswer, sent |-> 0, of |-> NoFetch, req |-> ValidReq]
\* unauthorized: a fetch made with the token has been answered 401
NoPrev == [kind |-> "none", token |-> 0, issuer_calls |-> 0,
           unauthorized |-> FALSE]

KeyOf(t) ==
  CacheKey(tk[t].creds.tenant_id, tk[t].creds.client_id,
           tk[t].creds.client_secret, tk[t].creds.resource)

\* the module as loaded: empty cache, free lock, no request running
HandlerInit ==
  /\ now = 0
  /\ token_cache = [k \in CacheKeys |-> NoEntry]
  /\ token_lock = NoThread
  /\ issued = 0
  /\ pc = [t \in Threads |-> "idle"]
  /\ calls = [t \in Threads |-> 0]
  /\ tk = [t \in Threads |-> TkInit]
  /\ tr = [t \in Threads |-> TrInit]
  /\ ft = [t \in Threads |-> FtInit]
  /\ resp = [t \in Threads |-> NoResp]
  /\ prev = [k \in CacheKeys |-> NoPrev]
  /\ last_write = [k \in CacheKeys |-> 0]
  /\ written_for = [k \in CacheKeys |-> NoCreds]

\* no function is exercised on its own
NoParams == [pageSize |-> ParamAbsent, maxPages |-> ParamAbsent, limit |-> 0]
NoValidated == [status |-> "none", page_size |-> 0, max_pages |-> 0]
NotRun == [done |-> FALSE, data |-> <<>>]

Init ==
  /\ HandlerInit
  /\ req_params = NoParams
  /\ validated = NoValidated
  /\ vulnerabilities = <<>>
  /\ reorganized = NotRun

(* ------------------------------ the clock ----------------------------- *)
Tick ==
  /\ \E i \in Instants : i > now /\ now' = i
  /\ UNCHANGED fn_vars
  /\ UNCHANGED written_for
  /\ UNCHANGED <<token_cache, token_lock, issued, pc, calls, tk, tr, ft, resp,
                 prev, last_write>>

(* --------------------- getMDVMData: the entry point ------------------- *)
ErrorResponse(status_code, error) ==
  [NoResp EXCEPT !.status_code = status_code, !.error = error]

\* lines 306-315: a RuntimeError of the token call or of the fetch
UpstreamFailure(error, ans, sent) ==
  [ErrorResponse(502, error) EXCEPT !.timestamp = TRUE, !.upstream = ans,
                                    !.sent = sent]

\* variant: every exception is answered as an upstream failure
UnexpectedFailureAsUpstream(ans, sent) ==
  UpstreamFailure("InternalError", ans, sent)

\* lines 316-325: any other exception of the token call or of the fetch
UnexpectedFailure(ans, sent) ==
  [ErrorResponse(500, "InternalError") EXCEPT !.timestamp = TRUE,
                                              !.upstream = ans, !.sent = sent]

\* line 242
required_env_vars == {"AAD_TENANT_ID", "AAD_CLIENT_ID", "AAD_CLIENT_SECRET"}

MissingEnv(env) ==
  env.AAD_TENANT_ID = "" \/ env.AAD_CLIENT_ID = "" \/ env.AAD_CLIENT_SECRET = ""

\* the handler returns resp_t, the answer to the request the thread is
\* handling: its locals are gone
Respond(t, resp_t) ==
  /\ resp' = [resp EXCEPT ![t] =
                [resp_t EXCEPT !.req = IF pc[t] = "idle" THEN resp_t.req
                                       ELSE resp[t].req]]
  /\ pc' = [pc EXCEPT ![t] = "idle"]
  /\ tk' = [tk EXCEPT ![t] = TkInit]
  /\ ft' = [ft EXCEPT ![t] = FtInit]
  /\ tr' = [tr EXCEPT ![t] = TrInit]

\* lines 224-256: parameter validation, environment validation, and the call
\* of _get_cached_token up to the point where it waits for _token_lock; the
\* request's parameters are drawn from page_sizes and max_pages, the
\* environment it finds from envs, the source it reads from sources
Request(t, max_calls, page_sizes, max_pages, envs, sources) ==
  /\ pc[t] = "idle"
  /\ calls[t] < max_calls
  /\ calls' = [calls EXCEPT ![t] = @ + 1]
  /\ \E ps \in page_sizes, mp \in max_pages, env \in envs, n \in sources :
       LET found == [int_params |-> (ps.given => ps.int) /\ (mp.given => mp.int),
                     env_set |-> \A var \in required_env_vars : env[var] /= ""]
       IN
       IF (ps.given /\ ~ps.int) \/ (mp.given /\ ~mp.int)
       THEN Respond(t, [ErrorResponse(400, "ValidationError") EXCEPT !.req = found])
       ELSE IF MissingEnv(env)
       THEN Respond(t, [ErrorResponse(500, "ConfigurationError")
                          EXCEPT !.req = found])
       ELSE /\ resp' = [resp EXCEPT ![t] = [NoResp EXCEPT !.req = found]]
            /\ tk' = [tk EXCEPT ![t] =
                 [TkInit EXCEPT !.creds =
                    [tenant_id |-> env.AAD_TENANT_ID,
                     client_id |-> env.AAD_CLIENT_ID,
                     client_secret |-> env.AAD_CLIENT_SECRET,
                     resource |-> ResourceOf(env)]]]
            /\ ft' = [ft EXCEPT ![t] =
                 [FtInit EXCEPT !.page_size = ClampPageSize(ps),
                                !.max_pages = ClampMaxPages(mp),
                                !.src_pages = n]]
            /\ tr' = [tr EXCEPT ![t] = TrInit]
            /\ pc' = [pc EXCEPT ![t] = "acquire_read"]
  /\ UNCHANGED fn_vars
  /\ UNCHANGED written_for
  /\ UNCHANGED <<now, token_cache, token_lock, issued, prev, last_write>>

(* ------------------- _fetch_mdvm_vulnerabilities: the loop ------------ *)
\* variants of the loop condition: one page too many, and 0 taken for a limit
LoopCondInclusive(current_url, max_pages, pages_fetched) ==
  Truthy(current_url) /\ (max_pages = 0 \/ pages_fetched <= max_pages)
LoopCondZeroIsLimit(current_url, max_pages, pages_fetched) ==
  Truthy(current_url) /\ pages_fetched < max_pages

\* line 156: while current_url and (max_pages == 0 or pages_fetched < max_pages)
LoopCond(current_url, max_pages, pages_fetched) ==
  Truthy(current_url) /\ (max_pages = 0 \/ pages_fetched < max_pages)

\* variant: has_more_data taken from the page counter alone
FetchResultByLimit(current_url, max_pages, pages_fetched) ==
  [NoResp EXCEPT !.status_code = 200, !.pages_fetched = pages_fetched,
                 !.has_more_data = (max_pages > 0 /\ pages_fetched >= max_pages)]

\* lines 214-220, answered by the entry point with status 200
FetchResult(current_url, max_pages, pages_fetched) ==
  [NoResp EXCEPT !.status_code = 200, !.pages_fetched = pages_fetched,
                 !.has_more_data = Truthy(current_url)]

\* the loop head with the fetcher's locals f (tk_t: the locals the token
\* call left to the handler): either the next page request goes out through
\* the session, or the loop ends and the result is returned
LoopHead(t, f, tk_t) ==
  IF LoopCond(f.current_url, f.max_pages, f.pages_fetched)
  THEN /\ pc' = [pc EXCEPT ![t] = "get"]
       /\ ft' = [ft EXCEPT ![t] = [f EXCEPT !.gets = @ + 1]]
       /\ tr' = [tr EXCEPT ![t] = TrStart]
       /\ tk' = [tk EXCEPT ![t] = tk_t]
       /\ resp' = resp
  ELSE Respond(t, [FetchResult(f.current_url, f.max_pages, f.pages_fetched)
                     EXCEPT !.of = [max_pages |-> f.max_pages,
                                    src_pages |-> f.src_pages,
                                    gets |-> f.gets]])

\* lines 140-156: _get_cached_token has returned access_token, the fetcher
\* starts
StartFetch(t, access_token) ==
  LoopHead(t, [ft[t] EXCEPT !.current_url = BaseUrl(ft[t].page_size),
                            !.page_size = 0, !.pages_fetched = 0],
           [TkInit EXCEPT !.creds = tk[t].creds, !.access_token = access_token])

(* --------------------------- _get_cached_token ------------------------ *)
\* variants of the check: the boundary served, and the lifetime taken for the
\* buffer
CacheHitInclusive(entry, time) ==
  entry.present /\ entry.expires_at >= time + BufferSeconds
CacheHitLifetimeBuffer(entry, time) ==
  entry.present /\ entry.expires_at > time + TokenLifetime

\* line 98: cached_entry and cached_entry['expires_at'] > time.time() + 300
CacheHit(entry, time) ==
  entry.present /\ entry.expires_at > time + BufferSeconds

\* variant: the entry expires after the buffer instead of the lifetime
NewEntryShortLived(token, time) ==
  [token |-> token, expires_at |-> time + BufferSeconds, present |-> TRUE]

\* lines 106-109: the entry stored for a token
NewEntry(token, time) ==
  [token |-> token, expires_at |-> time + TokenLifetime, present |-> TRUE]

\* variant: setdefault, an entry already stored is kept
StoreEntryKeepFirst(cache, cache_key, token, time) ==
  IF cache[cache_key].present THEN cache
  ELSE [cache EXCEPT ![cache_key] = NewEntry(token, time)]

\* variant: the cache holds one entry, the other keys are dropped
StoreEntryEvicting(cache, cache_key, token, time) ==
  [k \in DOMAIN cache |->
     IF k = cache_key THEN NewEntry(token, time) ELSE NoEntry]

\* line 106: _token_cache[cache_key] = {...}
StoreEntry(cache, cache_key, token, time) ==
  [cache EXCEPT ![cache_key] = NewEntry(token, time)]

\* the outcome of a completed _get_cached_token call
Outcome(kind, token, issuer_calls) ==
  [kind |-> kind, token |-> token, issuer_calls |-> issuer_calls,
   unauthorized |-> FALSE]

\* line 96: with _token_lock (blocks while another thread holds it)
AcquireRead(t) ==
  /\ pc[t] = "acquire_read"
  /\ token_lock = NoThread
  /\ token_lock' = t
  /\ pc' = [pc EXCEPT ![t] = "read_check"]
  /\ UNCHANGED fn_vars
  /\ UNCHANGED written_for
  /\ UNCHANGED <<now, token_cache, issued, calls, tk, tr, ft, resp, prev,
                 last_write>>

\* variant: the issuer is called inside the "with" block
LockKept(t) == t

\* the lock after the "with" block of the cache check is left for the call
\* of _fetch_aad_token (line 103)
LockAfterCheck(t) == NoThread

\* lines 97-100 on a hit: the cached token is returned, the lock released and
\* the fetcher started
ReadCheckHit(t) ==
  /\ pc[t] = "read_check"
  /\ CacheHit(token_cache[KeyOf(t)], now)
  /\ token_lock' = NoThread
  /\ prev' = [prev EXCEPT ![KeyOf(t)] =
                [Outcome("hit", token_cache[KeyOf(t)].token, tk[t].issuer_calls)
                   EXCEPT !.unauthorized =
                     prev[KeyOf(t)].unauthorized
                     /\ prev[KeyOf(t)].token = token_cache[KeyOf(t)].token]]
  /\ StartFetch(t, token_cache[KeyOf(t)].token)
  /\ UNCHANGED fn_vars
  /\ UNCHANGED written_for
  /\ UNCHANGED <<now, token_cache, issued, calls, last_write>>

\* lines 97-103 on a miss: the lock is released and _fetch_aad_token sends
\* its POST through the session (lines 55-75)
ReadCheckMiss(t) ==
  /\ pc[t] = "read_check"
  /\ ~CacheHit(token_cache[KeyOf(t)], now)
  /\ token_lock' = LockAfterCheck(t)
  /\ tk' = [tk EXCEPT ![t].kind = IF token_cache[KeyOf(t)].present
                                  THEN "expired" ELSE "absent",
                      ![t].issuer_calls = @ + 1]
  /\ tr' = [tr EXCEPT ![t] = TrStart]
  /\ pc' = [pc EXCEPT ![t] = "post"]
  /\ UNCHANGED fn_vars
  /\ UNCHANGED written_for
  /\ UNCHANGED <<now, token_cache, issued, calls, ft, resp, prev, last_write>>

\* lines 81-89: the RuntimeError _fetch_aad_token raises
AuthError(step, ans) ==
  IF step /= "response" THEN "AuthTransportError"
  ELSE IF RaisesForStatus(ans.status) THEN "AuthHttpStatusError"
  ELSE "AuthMalformedResponse"

\* one attempt of the token POST on the wire (lines 70-89), answered from
\* answers. The transport
\* sends it again, or _fetch_aad_token returns the token (the thread then
\* waits for the lock, line 105), or it raises and getMDVMData answers 502
\* (lines 306-315)
PostAttempt(t, answers) ==
  /\ pc[t] = "post"
  /\ \E ans \in answers :
       LET step == TransportStep("POST", ans, tr[t].retries_left)
           sent == tr[t].sent + 1
       IN
       IF step = "retry"
       THEN /\ tr' = [tr EXCEPT ![t] = [retries_left |-> @.retries_left - 1,
                                        sent |-> sent]]
            /\ UNCHANGED <<pc, issued, resp, prev, tk, ft>>
       ELSE IF step = "response" /\ ~RaisesForStatus(ans.status) /\ ans.body_ok
       THEN /\ issued' = issued + 1
            /\ tk' = [tk EXCEPT ![t].token = issued + 1, ![t].issued_at = now]
            /\ tr' = [tr EXCEPT ![t].sent = sent]
            /\ pc' = [pc EXCEPT ![t] = "acquire_write"]
            /\ UNCHANGED <<resp, prev, ft>>
       ELSE /\ Respond(t, UpstreamFailure(AuthError(step, ans), ans, sent))
            /\ prev' = [prev EXCEPT ![KeyOf(t)] =
                 Outcome("failed", 0, tk[t].issuer_calls)]
            /\ issued' = issued
  /\ UNCHANGED fn_vars
  /\ UNCHANGED written_for
  /\ UNCHANGED <<now, token_cache, token_lock, calls, last_write>>

\* line 105: with _token_lock
AcquireWrite(t) ==
  /\ pc[t] = "acquire_write"
  /\ token_lock = NoThread
  /\ token_lock' = t
  /\ pc' = [pc EXCEPT ![t] = "write_update"]
  /\ UNCHANGED fn_vars
  /\ UNCHANGED written_for
  /\ UNCHANGED <<now, token_cache, issued, calls, tk, tr, ft, resp, prev,
                 last_write>>

\* what line 111 returns: the token this call's issuance produced
Returned(token, cache_entry) == token

\* lines 106-111: the entry is stored, the lock released, the token returned
\* and the fetcher started
WriteUpdate(t) ==
  /\ pc[t] = "write_update"
  /\ token_cache' = StoreEntry(token_cache, KeyOf(t), tk[t].token, now)
  /\ last_write' = [last_write EXCEPT ![KeyOf(t)] = tk[t].token]
  /\ written_for' = [written_for EXCEPT ![KeyOf(t)] = tk[t].creds]
  /\ token_lock' = NoThread
  /\ LET access_token == Returned(tk[t].token, token_cache'[KeyOf(t)]) IN
       /\ prev' = [prev EXCEPT ![KeyOf(t)] =
                     Outcome(tk[t].kind, access_token, tk[t].issuer_calls)]
       /\ StartFetch(t, access_token)
  /\ UNCHANGED fn_vars
  /\ UNCHANGED <<now, issued, calls>>

(* ------------------ _fetch_mdvm_vulnerabilities: a page --------------- *)
\* variant: 401 is not told from the other statuses
FetchErrorNo401(step, ans, sent) ==
  IF step /= "response"
  THEN UpstreamFailure("TransportError", ans, sent)
  ELSE IF ans.status = 403 THEN UpstreamFailure("Forbidden", ans, sent)
  ELSE IF 500 <= ans.status /\ ans.status < 600
  THEN UpstreamFailure("ServerError", ans, sent)
  ELSE UpstreamFailure("UnexpectedStatus", ans, sent)

\* lines 182-206: the RuntimeError raised for a failed page request,
\* answered by getMDVMData with status 502 (lines 306-315)
FetchError(step, ans, sent) ==
  IF step /= "response"
  THEN UpstreamFailure("TransportError", ans, sent)
  ELSE IF ans.status = 401 THEN UpstreamFailure("Unauthorized", ans, sent)
  ELSE IF ans.status = 403 THEN UpstreamFailure("Forbidden", ans, sent)
  ELSE IF ans.status = 429
  THEN [UpstreamFailure("RateLimited", ans, sent) EXCEPT !.retry_after =
          IF ans.retry_after > 0 THEN ans.retry_after ELSE DefaultRetryAfter]
  ELSE IF 500 <= ans.status /\ ans.status < 600
  THEN UpstreamFailure("ServerError", ans, sent)
  ELSE UpstreamFailure("UnexpectedStatus", ans, sent)

\* variant: a 401 drops the entry of the token
CacheInvalidatedOn401(cache, cache_key, resp_t) ==
  IF resp_t.error = "Unauthorized" THEN [cache EXCEPT ![cache_key] = NoEntry]
  ELSE cache

\* _token_cache after a fetch has failed with the response resp_t: neither
\* the handlers of lines 182-206 nor those of lines 306-325 touch it
CacheAfterFetchError(cache, cache_key, resp_t) == cache

\* the answers (among answers) a source of src_pages pages can give to the
\* request for the page after pages_fetched: every page but its last carries
\* a continuation link
SourceAnswers(answers, pages_fetched, src_pages) ==
  {a \in answers :
     (a.err = "none" /\ a.status = 200 /\ a.body_ok)
       => (a.next <=> pages_fetched + 1 < src_pages)}

\* one attempt of a page GET on the wire (lines 162-206), answered from
\* answers. The transport sends
\* it again, or the page is taken (lines 169-180) and the loop head decides,
\* or the request fails and the fetch ends with its classified error. A 200
\* answer whose body is not ok is JSON that is not an object: line 173 raises
\* AttributeError, which no handler of the fetcher catches
GetAttempt(t, answers) ==
  /\ pc[t] = "get"
  /\ \E ans \in SourceAnswers(answers, ft[t].pages_fetched, ft[t].src_pages) :
       LET step == TransportStep("GET", ans, tr[t].retries_left)
           sent == tr[t].sent + 1
       IN
       IF step = "retry"
       THEN /\ tr' = [tr EXCEPT ![t] = [retries_left |-> @.retries_left - 1,
                                        sent |-> sent]]
            /\ UNCHANGED <<pc, resp, tk, ft, token_cache, prev>>
       ELSE IF step = "response" /\ ~RaisesForStatus(ans.status) /\ ans.body_ok
       THEN /\ LoopHead(t, [ft[t] EXCEPT
                 !.current_url = IF ans.next THEN NextLink ELSE NoUrl,
                 !.pages_fetched = @ + 1], tk[t])
            /\ UNCHANGED <<token_cache, prev>>
       ELSE LET failure ==
                  IF step = "response" /\ ~RaisesForStatus(ans.status)
                  THEN UnexpectedFailure(ans, sent)
                  ELSE FetchError(step, ans, sent)
            IN  /\ Respond(t, [failure EXCEPT !.of.gets = ft[t].gets])
                /\ token_cache' =
                     CacheAfterFetchError(token_cache, KeyOf(t), failure)
                /\ prev' =
                     IF failure.error = "Unauthorized"
                        /\ prev[KeyOf(t)].token = tk[t].access_token
                     THEN [prev EXCEPT ![KeyOf(t)].unauthorized = TRUE]
                     ELSE prev
  /\ UNCHANGED fn_vars
  /\ UNCHANGED written_for
  /\ UNCHANGED <<now, token_lock, issued, calls, last_write>>

(* --------------------------- specifications --------------------------- *)
\* host threads serve requests concurrently
ThreadStep(t) ==
  \/ Request(t, MaxCalls, ConcPageSizeInputs, ConcMaxPagesInputs,
             ConcEnvironments, ConcSources)
  \/ AcquireRead(t)
  \/ ReadCheckHit(t)
  \/ ReadCheckMiss(t)
  \/ PostAttempt(t, ConcTokenAnswers)
  \/ AcquireWrite(t)
  \/ WriteUpdate(t)
  \/ GetAttempt(t, ConcPageAnswers)

Next == Tick \/ \E t \in Threads : ThreadStep(t)

Spec == Init /\ [][Next]_vars

\* one caller, one request after the other, with every parameter
SeqStep(t) ==
  \/ Request(t, MaxSeqCalls, PageSizeInputs, MaxPagesInputs, SeqEnvironments,
             Sources)
  \/ AcquireRead(t)
  \/ ReadCheckHit(t)
  \/ ReadCheckMiss(t)
  \/ PostAttempt(t, TokenAnswers)
  \/ AcquireWrite(t)
  \/ WriteUpdate(t)
  \/ GetAttempt(t, PageAnswers)

SeqNext == Tick \/ SeqStep(SeqThread)

SeqSpec == Init /\ [][SeqNext]_vars

\* one caller, one request after the other, under every environment
CredStep(t) ==
  \/ Request(t, MaxSeqCalls, ConcPageSizeInputs, ConcMaxPagesInputs,
             Environments, ConcSources)
  \/ AcquireRead(t)
  \/ ReadCheckHit(t)
  \/ ReadCheckMiss(t)
  \/ PostAttempt(t, TokenAnswers)
  \/ AcquireWrite(t)
  \/ WriteUpdate(t)
  \/ GetAttempt(t, ConcPageAnswers)

CredNext == Tick \/ CredStep(SeqThread)

CredSpec == Init /\ [][CredNext]_vars

(* ------------------- the validation of the parameters ----------------- *)
\* the pageSize and maxPages a request can carry, and the values of
\* MAX_PAGES_LIMIT a deployment can be configured with (0: no cap)
ParamPageSizes ==
  {ParamAbsent, ParamBad}
  \cup {ParamInt(n) : n \in {-5, 0, 1, 2, 10, 199999, 200000, 200001, 999999999}}
ParamMaxPages ==
  {ParamAbsent, ParamBad} \cup {ParamInt(n) : n \in (-2)..(MaxCap + 1)}
Limits == 0..MaxCap

\* lines 228-239: the parameters the fetcher is called with, or the
\* ValueError answered 400
Validate(params) ==
  IF (params.pageSize.given /\ ~params.pageSize.int)
     \/ (params.maxPages.given /\ ~params.maxPages.int)
  THEN [NoValidated EXCEPT !.status = "ValueError"]
  ELSE [status |-> "ok", page_size |-> ClampPageSize(params.pageSize),
        max_pages |-> EffectiveMaxPages(params.maxPages, params.limit)]

\* the validation on its own, for any parameters and any cap
ParamInit ==
  /\ HandlerInit
  /\ req_params \in [pageSize : ParamPageSizes, maxPages : ParamMaxPages,
                      limit : Limits]
  /\ validated = NoValidated
  /\ vulnerabilities = <<>>
  /\ reorganized = NotRun

ValidateParams ==
  /\ validated.status = "none"
  /\ validated' = Validate(req_params)
  /\ UNCHANGED <<now, token_cache, token_lock, issued, pc, calls, tk, tr, ft,
                 resp, prev, last_write, written_for, req_params, vulnerabilities,
                 reorganized>>

ParamNext == ValidateParams

ParamSpec == ParamInit /\ [][ParamNext]_vars

(* --------------- _reorganize_vulnerabilities_by_hierarchy ------------- *)
\* a JSON value of a record as Python has it: None or a str
None == [null |-> TRUE, s |-> ""]
JStr(s) == [null |-> FALSE, s |-> s]
\* "not v": None and "" are falsy
Falsy(v) == v.null \/ v.s = ""
\* what an f-string makes of the value
Format(v) == IF v.null THEN "None" ELSE v.s

\* the records the API can return: dicts with some of the fields present,
\* "id" standing for the rest of the record's data
Records ==
  { [osPlatform |-> JStr("Windows"), deviceName |-> JStr("d1"),
     cveId |-> JStr("CVE-1"), id |-> JStr("a")],
    [osPlatform |-> JStr("Windows"), deviceName |-> JStr("d1"),
     cveId |-> JStr("CVE-1"), id |-> JStr("b")],
    [osPlatform |-> JStr("Windows"), deviceName |-> JStr("d1"),
     softwareName |-> JStr("sw"), softwareVersion |-> JStr("1"),
     id |-> JStr("c")],
    [osPlatform |-> JStr("Windows"), deviceName |-> JStr("d1"),
     cveId |-> JStr("sw_1"), id |-> JStr("d")],
    [osPlatform |-> JStr("Windows"), deviceName |-> JStr("d2"),
     cveId |-> JStr(""), softwareVersion |-> JStr("1"), id |-> JStr("e")],
    [osPlatform |-> JStr("Linux"), deviceName |-> JStr("d1"),
     cveId |-> None, softwareName |-> None, id |-> JStr("f")],
    [cveId |-> JStr("CVE-1"), id |-> JStr("g")],
    [osPlatform |-> None, deviceName |-> JStr("d1"), cveId |-> JStr("CVE-1"),
     id |-> JStr("h")],
    [osPlatform |-> JStr("Linux"), deviceName |-> JStr("d2"),
     cveId |-> JStr("CVE-2"), id |-> JStr("i")] }

\* the lists of at most n records
ListsUpTo(n) == UNION {[1..k -> Records] : k \in 0..n}

\* vuln.get(field, default)
Get(vuln, field, default) ==
  IF field \in DOMAIN vuln THEN vuln[field] ELSE default

\* lines 125-132: the third-level key of a record
VulnKey(vuln) ==
  LET cve_id == Get(vuln, "cveId", None)
      software_name == Get(vuln, "softwareName", JStr("Unknown"))
      software_version == Get(vuln, "softwareVersion", JStr("Unknown"))
  IN  IF Falsy(cve_id)
      THEN JStr(Format(software_name) \o "_" \o Format(software_version))
      ELSE cve_id

\* {}
EmptyDict == [x \in {} |-> x]
\* d.setdefault(k, {})
SetDefault(d, k) == IF k \in DOMAIN d THEN d[k] ELSE EmptyDict

\* variant: a key already there keeps its value
PutKeepFirst(d, k, v) ==
  [x \in DOMAIN d \cup {k} |-> IF x \in DOMAIN d THEN d[x] ELSE v]

\* d[k] = v
Put(d, k, v) ==
  [x \in DOMAIN d \cup {k} |-> IF x = k THEN v ELSE d[x]]

\* line 135, one iteration of the loop
Insert(dict, vuln) ==
  LET os_platform == Get(vuln, "osPlatform", JStr("Unknown"))
      device_name == Get(vuln, "deviceName", JStr("Unknown"))
      devices == SetDefault(dict, os_platform)
      cves == SetDefault(devices, device_name)
  IN  Put(dict, os_platform,
          Put(devices, device_name, Put(cves, VulnKey(vuln), vuln)))

\* lines 119-137: the records are inserted in the order of the list
RECURSIVE reorganize_vulnerabilities_by_hierarchy(_)
reorganize_vulnerabilities_by_hierarchy(vulns) ==
  IF Len(vulns) = 0 THEN EmptyDict
  ELSE Insert(reorganize_vulnerabilities_by_hierarchy(
                SubSeq(vulns, 1, Len(vulns) - 1)),
              vulns[Len(vulns)])

\* a call of the reorganizer on its own, for any list of records
ReorgInit ==
  /\ HandlerInit
  /\ req_params = NoParams
  /\ validated = NoValidated
  /\ vulnerabilities \in ListsUpTo(MaxRecords)
  /\ reorganized = NotRun

CallReorganize ==
  /\ ~reorganized.done
  /\ reorganized' =
       [done |-> TRUE,
        data |-> reorganize_vulnerabilities_by_hierarchy(vulnerabilities)]
  /\ UNCHANGED <<now, token_cache, token_lock, issued, pc, calls, tk, tr, ft,
                 resp, prev, last_write, written_for, req_params, validated,
                 vulnerabilities>>

ReorgNext == CallReorganize

ReorgSpec == ReorgInit /\ [][ReorgNext]_vars

(* ------------------------------ the claims ---------------------------- *)
\* thread t leaves the cache check with the cached token (lines 99-100)
ServedFromCache(t) ==
  pc[t] = "read_check" /\ pc'[t] \notin {"read_check", "post"}
\* the entry of t's key is more than the buffer away from its expiry
Fresh(t) ==
  /\ token_cache[KeyOf(t)].present
  /\ token_cache[KeyOf(t)].expires_at > now + BufferSeconds

\* C1: a token is returned from the cache only if, at the moment of the
\* check, the entry exists and its expires_at is strictly greater than the
\* current time plus 300 seconds; the token returned is the entry's token.
C1_ServedOnlyWhenFresh ==
  [][\A t \in Threads :
       ServedFromCache(t) =>
         /\ Fresh(t)
         /\ prev'[KeyOf(t)].token = token_cache[KeyOf(t)].token
         /\ issued' = issued]_vars

\* a thread was served, at time 3000, the entry that expires at 3600
C1_Witness ==
  \E t \in Threads :
    /\ pc[t] = "get"
    /\ prev[KeyOf(t)].kind = "hit"
    /\ tk[t].access_token = token_cache[KeyOf(t)].token
    /\ token_cache[KeyOf(t)].expires_at = 3600
    /\ now = 3000

\* C2: when the previous call for the key completed successfully after
\* issuing a token, and the next call for the key finds the stored entry more
\* than 300 seconds from its expiry, that call returns the same token without
\* invoking the issuer: one issuer invocation across the two calls.
C2_SecondCallServed ==
  [][\A t \in Threads :
       ( /\ pc[t] = "read_check"
         /\ pc'[t] /= "read_check"
         /\ prev[KeyOf(t)].kind \in {"absent", "expired"}
         /\ Fresh(t) )
       => /\ pc'[t] /= "post"
          /\ prev'[KeyOf(t)].kind = "hit"
          /\ prev'[KeyOf(t)].token = prev[KeyOf(t)].token
          /\ prev[KeyOf(t)].issuer_calls + prev'[KeyOf(t)].issuer_calls = 1
          /\ issued' = issued]_vars

\* the caller's second request was served the token its first request had
\* issued, the only token issued so far
C2_Witness ==
  /\ calls[SeqThread] = 2
  /\ pc[SeqThread] = "get"
  /\ issued = 1
  /\ prev[KeyOf(SeqThread)].kind = "hit"
  /\ prev[KeyOf(SeqThread)].token = 1
  /\ tk[SeqThread].access_token = 1

\* C3: a call that finds the stored entry expired (expires_at <= now + 300)
\* and whose issuance succeeds has invoked the issuer exactly once and
\* replaces the entry by one holding the newly issued token, which it
\* returns; the following call for the key within the new validity window is
\* served that token from the cache, without another issuance.
C3_RefreshAfterExpiry ==
  [][\A t \in Threads :
       /\ ( pc[t] = "write_update" /\ pc'[t] /= "write_update"
            /\ tk[t].kind = "expired" )
          => /\ tk[t].issuer_calls = 1
             /\ tk[t].token = issued
             /\ token_cache'[KeyOf(t)].present
             /\ token_cache'[KeyOf(t)].token = tk[t].token
             /\ token_cache'[KeyOf(t)].token /= token_cache[KeyOf(t)].token
             /\ token_cache'[KeyOf(t)].expires_at > now + BufferSeconds
             /\ prev'[KeyOf(t)].token = tk[t].token
       /\ ( pc[t] = "read_check" /\ pc'[t] /= "read_check"
            /\ prev[KeyOf(t)].kind = "expired" /\ Fresh(t) )
          => /\ pc'[t] /= "post"
             /\ prev'[KeyOf(t)].token = prev[KeyOf(t)].token
             /\ token_cache[KeyOf(t)].token = prev[KeyOf(t)].token
             /\ issued' = issued]_vars

\* the third request for a key was served token 2, issued at 3300 when the
\* entry of token 1 had expired
C3_Witness ==
  /\ calls[SeqThread] = 3
  /\ pc[SeqThread] = "get"
  /\ now = 3300
  /\ issued = 2
  /\ prev[KeyOf(SeqThread)].kind = "hit"
  /\ tk[SeqThread].access_token = 2
  /\ token_cache[KeyOf(SeqThread)] = NewEntry(2, 3300)
  /\ \A k \in CacheKeys \ {KeyOf(SeqThread)} : ~token_cache[k].present

\* C4: _token_lock is held exactly during the cache read-check and the cache
\* write-update: a thread whose token POST or page GET is on the wire does
\* not hold it, and at most one thread is inside a cache read or write.
C4_LockOnlyAroundCache ==
  /\ \A t \in Threads :
       /\ token_lock = t <=> pc[t] \in {"read_check", "write_update"}
       /\ pc[t] \in {"post", "get"} => token_lock /= t
  /\ Cardinality({t \in Threads : pc[t] \in {"read_check", "write_update"}}) <= 1

\* one thread's token POST is on the wire while another thread is inside
\* the cache check, holding the lock
C4_Witness ==
  \E t, u \in Threads :
    /\ t /= u
    /\ pc[t] = "post"
    /\ pc[u] = "read_check"
    /\ token_lock = u

\* C5: every caller that missed the cache returns the token its own issuance
\* produced, and the entry of a key holds the token of the last write-update
\* made for it.
C5_LastWriterWins ==
  /\ [](\A k \in CacheKeys :
          token_cache[k].present => token_cache[k].token = last_write[k])
  /\ [][\A t \in Threads :
          (pc[t] = "write_update" /\ pc'[t] /= "write_update")
          => /\ prev'[KeyOf(t)].token = tk[t].token
             /\ tk'[t].access_token = tk[t].token
             /\ last_write'[KeyOf(t)] = tk[t].token
             /\ \A k \in CacheKeys \ {KeyOf(t)} :
                  token_cache'[k] = token_cache[k]]_vars

\* both threads missed the cache for the same key in their first request,
\* each returned its own token, and the entry holds the later writer's
C5_Witness ==
  \E t, u \in Threads :
    /\ t /= u
    /\ calls[t] = 1 /\ calls[u] = 1
    /\ pc[t] = "get" /\ pc[u] = "get"
    /\ KeyOf(t) = KeyOf(u)
    /\ issued = 2
    /\ tk[t].access_token = 1
    /\ tk[u].access_token = 2
    /\ token_cache[KeyOf(t)].token = 1
    /\ last_write[KeyOf(t)] = 1

\* thread t has answered its request with status 200: the fetch succeeded
Fetched(t) == pc[t] = "idle" /\ resp[t].status_code = 200

\* C6: with max_pages = N > 0 and a source of more than N pages, a fetch that
\* succeeds has made exactly N session.get calls and returns
\* pages_fetched = N and has_more_data = true; no request beyond the N-th is
\* ever made.
C6_StopsAtPageLimit ==
  \A t \in Threads :
    /\ ( Fetched(t) /\ resp[t].of.max_pages > 0
         /\ resp[t].of.src_pages > resp[t].of.max_pages )
       => /\ resp[t].pages_fetched = resp[t].of.max_pages
          /\ resp[t].of.gets = resp[t].of.max_pages
          /\ resp[t].has_more_data
    /\ (pc[t] = "get" /\ ft[t].max_pages > 0) => ft[t].gets <= ft[t].max_pages

\* a fetch limited to 2 pages read 2 of a source's 3 pages
C6_Witness ==
  \E t \in Threads :
    /\ Fetched(t)
    /\ resp[t].of = [max_pages |-> 2, src_pages |-> 3, gets |-> 2]
    /\ resp[t].pages_fetched = 2
    /\ resp[t].has_more_data

\* C7: with max_pages = 0 the page counter never stops the loop: a fetch
\* that succeeds has requested every page of the source, one request each,
\* and ended on the page that carried no continuation link.
C7_UnlimitedReadsToTheEnd ==
  \A t \in Threads :
    /\ (Fetched(t) /\ resp[t].of.max_pages = 0)
       => /\ resp[t].pages_fetched = resp[t].of.src_pages
          /\ resp[t].of.gets = resp[t].of.src_pages
          /\ ~resp[t].has_more_data
    /\ (pc[t] = "get" /\ ft[t].max_pages = 0)
       => /\ ft[t].pages_fetched < ft[t].src_pages
          /\ ft[t].gets = ft[t].pages_fetched + 1

\* an unlimited fetch read all 3 pages of a source
C7_Witness ==
  \E t \in Threads :
    /\ Fetched(t)
    /\ resp[t].of = [max_pages |-> 0, src_pages |-> 3, gets |-> 3]
    /\ resp[t].pages_fetched = 3
    /\ ~resp[t].has_more_data

\* C8: a successful fetch returns has_more_data = true if and only if
\* max_pages > 0, pages_fetched reached max_pages and the source had a page
\* left (the last page read carried a continuation link).
C8_HasMoreData ==
  \A t \in Threads :
    Fetched(t) =>
      ( resp[t].has_more_data <=>
          /\ resp[t].of.max_pages > 0
          /\ resp[t].pages_fetched = resp[t].of.max_pages
          /\ resp[t].pages_fetched < resp[t].of.src_pages )

\* the last page the limit allowed was the last page of the source
C8_Witness ==
  \E t \in Threads :
    /\ Fetched(t)
    /\ resp[t].of = [max_pages |-> 2, src_pages |-> 2, gets |-> 2]
    /\ resp[t].pages_fetched = 2
    /\ ~resp[t].has_more_data

AuthErrors == {"AuthTransportError", "AuthHttpStatusError", "AuthMalformedResponse"}
\* thread t has answered 502 for a failed token issuance / a failed page GET
IssuanceFailed(t) == pc[t] = "idle" /\ resp[t].error \in AuthErrors
PageFailed(t) ==
  pc[t] = "idle" /\ resp[t].status_code = 502 /\ resp[t].error \notin AuthErrors

\* C9 as claimed: a failing issuance has put exactly one POST on the wire.
C9_PostNeverRetried ==
  \A t \in Threads : IssuanceFailed(t) => resp[t].sent = 1

\* C9 as amended: the token POST is retried like a page GET. A failing
\* issuance has put between 1 and 4 POSTs on the wire, and exactly 4 when
\* its last answer is a connection failure or a 429/500/502/503/504 status;
\* while the POST is in flight the attempts sent and the retries left add up
\* to 3.
C9_PostRetriedLikeGet ==
  \A t \in Threads :
    /\ IssuanceFailed(t) =>
         /\ resp[t].sent \in 1..4
         /\ ( resp[t].upstream.err /= "none"
              \/ resp[t].upstream.status \in {429, 500, 502, 503, 504} )
            => resp[t].sent = 4
    /\ pc[t] = "post" => tr[t].sent + tr[t].retries_left = 3

\* an issuance failed after 4 POSTs were answered 500
C9_Witness ==
  \E t \in Threads :
    /\ IssuanceFailed(t)
    /\ resp[t].upstream.status = 500
    /\ resp[t].sent = 4

\* C10 as claimed: a fetch whose page GET was answered 429 on the last
\* attempt fails as RateLimited with the Retry-After value of that answer,
\* or 60 when the header is absent.
C10_RateLimitedCarriesHint ==
  \A t \in Threads :
    ( PageFailed(t) /\ resp[t].upstream.err = "none"
      /\ resp[t].upstream.status = 429 )
    => /\ resp[t].error = "RateLimited"
       /\ resp[t].retry_after =
            IF resp[t].upstream.retry_after > 0
            THEN resp[t].upstream.retry_after ELSE 60

\* C11: a page GET answered 401, at the first page or after successful
\* pages, ends the fetch: no further request is made, the token cache and
\* the issuer are not invoked again, no FetchResult is returned, and the
\* error is Unauthorized, a kind no other failure of a page request gets.
C11_UnauthorizedEndsFetch ==
  /\ [](\A t \in Threads :
          PageFailed(t) =>
            /\ resp[t].error = "Unauthorized"
                 <=> (resp[t].upstream.err = "none" /\ resp[t].upstream.status = 401)
            /\ resp[t].error = "Unauthorized"
                 => /\ resp[t].pages_fetched = 0
                    /\ ~resp[t].has_more_data
                    /\ resp[t].of.max_pages = 0 /\ resp[t].of.src_pages = 0)
  /\ [][\A t \in Threads :
          (pc[t] = "get" /\ resp'[t].error = "Unauthorized")
          => /\ pc'[t] = "idle"
             /\ tr'[t] = TrInit /\ ft'[t] = FtInit
             /\ resp'[t].of.gets = ft[t].gets
             /\ ft[t].gets = ft[t].pages_fetched + 1
             /\ issued' = issued
             /\ token_cache' = token_cache
             /\ token_lock' = token_lock]_vars

\* a fetch ended Unauthorized at its second page request, answered 401 at
\* the first attempt
C11_Witness ==
  \E t \in Threads :
    /\ PageFailed(t)
    /\ resp[t].error = "Unauthorized"
    /\ resp[t].upstream.status = 401
    /\ resp[t].of.gets = 2
    /\ resp[t].sent = 1

\* the (platform, device, key) of a record, in the words of the claim
C12_Triple(v) ==
  << IF "osPlatform" \in DOMAIN v THEN v["osPlatform"] ELSE JStr("Unknown"),
     IF "deviceName" \in DOMAIN v THEN v["deviceName"] ELSE JStr("Unknown"),
     IF "cveId" \in DOMAIN v /\ ~v["cveId"].null /\ v["cveId"].s /= ""
     THEN v["cveId"]
     ELSE JStr(
       (IF "softwareName" \in DOMAIN v THEN Format(v["softwareName"]) ELSE "Unknown")
       \o "_" \o
       (IF "softwareVersion" \in DOMAIN v THEN Format(v["softwareVersion"])
        ELSE "Unknown")) >>

\* C12: the hierarchy returned for a list of records has an entry at path
\* (platform, device, key) exactly for the triples of the records of the
\* list, the key being the record's cveId when present and non-empty and
\* "{softwareName}_{softwareVersion}" otherwise, "Unknown" standing for an
\* absent platform, device, name or version; the value at a path is the last
\* record of the list with that triple.
C12_HierarchyLastWriteWins ==
  reorganized.done =>
    LET out == reorganized.data
        n == Len(vulnerabilities)
        triple(i) == C12_Triple(vulnerabilities[i])
        last(i) == \A j \in (i + 1)..n : triple(j) /= triple(i)
    IN  /\ \A i \in 1..n :
             /\ triple(i)[1] \in DOMAIN out
             /\ triple(i)[2] \in DOMAIN out[triple(i)[1]]
             /\ triple(i)[3] \in DOMAIN out[triple(i)[1]][triple(i)[2]]
             /\ last(i) => out[triple(i)[1]][triple(i)[2]][triple(i)[3]]
                             = vulnerabilities[i]
        /\ \A p \in DOMAIN out :
             /\ DOMAIN out[p] /= {}
             /\ \A d \in DOMAIN out[p] :
                  /\ DOMAIN out[p][d] /= {}
                  /\ \A k \in DOMAIN out[p][d] :
                       \E i \in 1..n : triple(i) = <<p, d, k>>

\* three records of one device: the first and the last share their cveId and
\* the last is the one kept, next to the record keyed by its software
C12_Witness ==
  /\ reorganized.done
  /\ Len(vulnerabilities) = 3
  /\ vulnerabilities[1].id = JStr("a")
  /\ vulnerabilities[2].id = JStr("c")
  /\ vulnerabilities[3].id = JStr("b")
  /\ DOMAIN reorganized.data = {JStr("Windows")}
  /\ DOMAIN reorganized.data[JStr("Windows")][JStr("d1")]
       = {JStr("CVE-1"), JStr("sw_1")}
  /\ reorganized.data[JStr("Windows")][JStr("d1")][JStr("CVE-1")].id = JStr("b")
  /\ reorganized.data[JStr("Windows")][JStr("d1")][JStr("sw_1")].id = JStr("c")

\* thread t has answered its request
Answered(t) == pc[t] = "idle" /\ resp[t].status_code /= 0
FetchErrors ==
  {"TransportError", "Unauthorized", "Forbidden", "RateLimited", "ServerError",
   "UnexpectedStatus"}

\* C13: the status of every response of getMDVMData is that of the first
\* failure met: 400 for a non-integer pageSize or maxPages; otherwise 500 for
\* a missing required variable, with the token cache, the issuer and the
\* fetcher not invoked; otherwise 502 with an error and a timestamp for a
\* classified failure of the token issuance or of the fetch; 500 with the
\* generic message for any other failure; and 200 only when the token was
\* acquired and the fetch succeeded.
C13_StatusByFirstFailure ==
  /\ [](\A t \in Threads :
          Answered(t) =>
            /\ ~resp[t].req.int_params
                 => resp[t].status_code = 400 /\ resp[t].error = "ValidationError"
            /\ (resp[t].req.int_params /\ ~resp[t].req.env_set)
                 => resp[t].status_code = 500 /\ resp[t].error = "ConfigurationError"
            /\ (resp[t].req.int_params /\ resp[t].req.env_set)
                 => \/ resp[t].status_code = 200 /\ resp[t].error = "none"
                    \/ /\ resp[t].status_code = 502 /\ resp[t].timestamp
                       /\ resp[t].error \in AuthErrors \cup FetchErrors
                    \/ /\ resp[t].status_code = 500 /\ resp[t].timestamp
                       /\ resp[t].error = "InternalError"
            /\ resp[t].status_code = 200
                 => resp[t].of.gets >= 1 /\ resp[t].pages_fetched >= 1)
  /\ [][\A t \in Threads :
          /\ (pc[t] = "idle" /\ calls'[t] /= calls[t] /\ pc'[t] = "idle")
             => /\ resp'[t].status_code \in {400, 500}
                /\ ~(resp'[t].req.int_params /\ resp'[t].req.env_set)
                /\ tk'[t] = TkInit /\ ft'[t] = FtInit /\ tr'[t] = TrInit
                /\ token_cache' = token_cache /\ token_lock' = token_lock
                /\ issued' = issued /\ prev' = prev
          /\ (pc[t] = "idle" /\ pc'[t] /= "idle")
             => resp'[t].req.int_params /\ resp'[t].req.env_set
          /\ (pc[t] = "post" /\ pc'[t] = "idle")
             => resp'[t].status_code = 502 /\ resp'[t].error \in AuthErrors
          /\ (pc[t] /= "idle" /\ resp'[t].status_code = 200)
             => /\ pc[t] = "get" /\ tk[t].access_token > 0
                /\ ft[t].gets = ft[t].pages_fetched + 1]_vars

\* a request with a non-integer parameter, made while a required variable
\* is missing, was answered 400
C13_Witness ==
  \E t \in Threads :
    /\ Answered(t)
    /\ ~resp[t].req.int_params /\ ~resp[t].req.env_set
    /\ resp[t].status_code = 400

\* C14: for every integer pageSize v the page size the fetcher is called
\* with is min(max(v, 1), 200000): 1 for every v below 1, 200000 for every v
\* above 200000, v otherwise; it is always between 1 and 200000.
C14_PageSizeClamped ==
  validated.status = "ok" =>
    /\ validated.page_size >= 1 /\ validated.page_size <= 200000
    /\ req_params.pageSize.given =>
         LET v == req_params.pageSize.val
         IN  validated.page_size =
               IF v < 1 THEN 1 ELSE IF v > 200000 THEN 200000 ELSE v
    /\ ~req_params.pageSize.given => validated.page_size = 10

\* pageSize=-5 became 1
C14_Witness ==
  /\ validated.status = "ok"
  /\ req_params.pageSize = ParamInt(-5)
  /\ validated.page_size = 1

\* C15 as claimed: the effective maxPages is never negative; with a hard cap
\* greater than 0 it is between 1 and the cap for every integer input, 0 and
\* negative values included; with the cap at 0 it is max(input, 0).
C15_CapOverridesUnlimited ==
  validated.status = "ok" =>
    LET v == IF req_params.maxPages.given THEN req_params.maxPages.val ELSE 5
    IN  /\ validated.max_pages >= 0
        /\ req_params.limit > 0
             => validated.max_pages >= 1 /\ validated.max_pages <= req_params.limit
        /\ req_params.limit = 0
             => validated.max_pages = IF v < 0 THEN 0 ELSE v

\* C16 as claimed: every entry written to the token cache has expires_at
\* equal to the time its token was issued plus 3600 seconds, whatever time
\* passes between the issuer's answer and the write under the lock.
C16_ExpiryFromIssuance ==
  [][\A t \in Threads :
       (pc[t] = "write_update" /\ pc'[t] /= "write_update")
       => token_cache'[KeyOf(t)].expires_at = tk[t].issued_at + 3600]_vars

\* C17 as claimed: a page GET answered 429, 500, 502, 503 or 504 is attempted
\* at most 3 times, and the failure the fetcher then reports has the kind of
\* the status (RateLimited for 429, ServerError for 5xx), not TransportError.
C17_StatusKindAfterRetries ==
  \A t \in Threads :
    ( PageFailed(t) /\ resp[t].upstream.err = "none"
      /\ resp[t].upstream.status \in {429, 500, 502, 503, 504} )
    => /\ resp[t].sent <= 3
       /\ resp[t].error /= "TransportError"
       /\ resp[t].error =
            IF resp[t].upstream.status = 429 THEN "RateLimited" ELSE "ServerError"

\* C18: entries of the token cache are created or replaced only after a
\* successful issuance, by the write-update of the call that issued, and
\* are never deleted: a call whose issuance fails leaves the cache as it
\* was, and the set of keys present never shrinks.
C18_CacheOnlyGrows ==
  [][/\ \A k \in CacheKeys : token_cache[k].present => token_cache'[k].present
     /\ token_cache' /= token_cache
          => \E t \in Threads :
               /\ pc[t] = "write_update" /\ pc'[t] /= "write_update"
               /\ tk[t].token > 0 /\ tk[t].token <= issued
               /\ token_cache'[KeyOf(t)].token = tk[t].token
               /\ \A k \in CacheKeys \ {KeyOf(t)} :
                    token_cache'[k] = token_cache[k]
     /\ \A t \in Threads :
          (pc[t] \in {"acquire_read", "read_check", "post"}
           /\ pc'[t] \in {"read_check", "post", "idle"})
          => token_cache' = token_cache]_vars

\* the issuance for a key whose entry had expired failed: the expired entry
\* is still there, next to the other key's entry
C18_Witness ==
  /\ IssuanceFailed(SeqThread)
  /\ now = 3300
  /\ \A k \in CacheKeys : token_cache[k].present
  /\ \E k \in CacheKeys :
       /\ prev[k].kind = "failed"
       /\ token_cache[k].expires_at = 3600

\* thread t takes a step of the entry point outside _get_cached_token: it
\* starts a request, or its page GET is answered
OutsideTokenCall(t) ==
  \/ calls'[t] /= calls[t]
  \/ pc[t] = "get" /\ (pc'[t] /= "get" \/ tr'[t] /= tr[t] \/ ft'[t] /= ft[t])

\* C19: only _get_cached_token writes the token cache: the fetcher and the
\* entry point leave it unchanged on every outcome. After a fetch has failed
\* with 401 the entry of the token it used is still present, and the next
\* _get_cached_token call for the key that finds it more than 300 seconds
\* from expiry returns the same token without an issuance.
C19_CacheSurvivesUnauthorized ==
  /\ [](\A k \in CacheKeys :
          prev[k].unauthorized
          => token_cache[k].present /\ token_cache[k].token = prev[k].token)
  /\ [][\A t \in Threads :
          /\ OutsideTokenCall(t)
             => /\ token_cache' = token_cache
                /\ last_write' = last_write
                /\ issued' = issued
          /\ (pc[t] = "get" /\ resp'[t].error = "Unauthorized")
             => prev'[KeyOf(t)].unauthorized
          /\ ( pc[t] = "read_check" /\ pc'[t] /= "read_check"
               /\ prev[KeyOf(t)].unauthorized /\ Fresh(t) )
             => /\ pc'[t] /= "post"
                /\ tk'[t].access_token = prev[KeyOf(t)].token
                /\ prev'[KeyOf(t)].token = prev[KeyOf(t)].token
                /\ tk'[t].issuer_calls = 0
                /\ issued' = issued]_vars

\* the second request was served from the cache the token with which the
\* fetch of the first request had been answered 401
C19_Witness ==
  /\ calls[SeqThread] = 2
  /\ pc[SeqThread] = "get"
  /\ issued = 1
  /\ prev[KeyOf(SeqThread)].kind = "hit"
  /\ prev[KeyOf(SeqThread)].unauthorized
  /\ tk[SeqThread].access_token = 1
  /\ token_cache[KeyOf(SeqThread)].token = 1

\* two credential sets with the same tenantId, clientId and resourceUri
SameIdentity(c, d) ==
  /\ c.tenant_id = d.tenant_id
  /\ c.client_id = d.client_id
  /\ c.resource = d.resource

\* C20 as claimed: the entry a call looks up is the one written for its
\* tenantId, clientId and resourceUri, whatever its secret. A call that finds
\* a valid entry written for the same three values returns the cached token
\* without the issuer being invoked, also when its secret differs from the
\* writer's; a call whose tenantId, clientId or resourceUri differs from the
\* writer's never shares the entry: it is not served from it.
C20_KeyIsTheIdentity ==
  [][\A t \in Threads :
       (pc[t] = "read_check" /\ pc'[t] /= "read_check")
       => /\ ( Fresh(t) /\ SameIdentity(tk[t].creds, written_for[KeyOf(t)]) )
             => /\ pc'[t] /= "post"
                /\ tk'[t].access_token = token_cache[KeyOf(t)].token
                /\ issued' = issued
          /\ ( token_cache[KeyOf(t)].present
               /\ ~SameIdentity(tk[t].creds, written_for[KeyOf(t)]) )
             => pc'[t] = "post"]_vars

====
